---- MODULE Spec2Model ----
(***************************************************************************)
(* State-machine model of two FRAME pallets of the solochain template:     *)
(*   pallets/simple-map/src/lib.rs     (SimpleMap: AccountId -> u32)       *)
(*   pallets/storage-cache/src/lib.rs  (SomeCopyValue, KingMember,         *)
(*                                      GroupMembers)                      *)
(* Every dispatchable is one action.  The host dispatches one call at a    *)
(* time; a call either returns Ok, returns a DispatchError, or panics      *)
(* (Option::unwrap on None; the call is aborted with nothing committed and *)
(* the host goes on dispatching).  `call` and `result` record the last     *)
(* dispatched call and how it ended; `events` holds the events that        *)
(* deposit_event has written in the current block; `accesses` lists the   *)
(* storage accesses (get, put, contains_key, ...) the last call made.      *)
(***************************************************************************)
EXTENDS Integers, Sequences, FiniteSets, TLC

\* ------------------------------------------------------------------ bounds
\* Width of the modelled unsigned integer type (u32 in the source, scaled
\* down so that the whole value range can be explored).
U32Bits == 8
\* Highest block number explored.
MaxBlock == 2
\* Highest number of events deposited within one block.
MaxEvents == 2

U32Max == 2^U32Bits - 1

Accounts == {"A", "B"}

\* Values passed as the u32 argument of the simple-map calls.
EntryVals == {0, 1, U32Max}

\* Values passed as the u32 argument of the storage-cache calls.
CopyVals == {50, 100}

\* ------------------------------------------------------- Option<T> values
None == <<>>
Some(x) == <<x>>
unwrap(o) == o[1]

\* ------------------------------------------------------------ origins
Signed(a) == <<"Signed", a>>
RawNone == <<"None">>
Origins == {Signed(a) : a \in Accounts} \cup {RawNone}

\* Origins of the calls on SomeCopyValue, which discard the signer's identity.
CounterOrigins == {Signed("A"), RawNone}

\* ensure_signed(origin): Some(account) for a signed origin, None (BadOrigin)
\* otherwise.
ensure_signed(origin) == IF origin[1] = "Signed" THEN Some(origin[2]) ELSE None

\* ------------------------------------------------------------ results
Ok == "Ok"
BadOrigin == "BadOrigin"
NoValueStored == "NoValueStored"
MaxValueReached == "MaxValueReached"
Overflow1 == "addition overflowed1"
Overflow2 == "addition overflowed2"
KingIsMember == "current king is a member so maintains priority"
NewKingNotMember == "new king is not a member so doesn't get priority"
AlreadyMember == "member already in group"
\* The call did not return: Option::unwrap() was called on None.
Panic == "Panic"

\* simple-map: StorageMap AccountId -> u32 (a key may be absent)
VARIABLE SimpleMap
\* storage-cache: StorageValue<u32>, an Option
VARIABLE SomeCopyValue
\* storage-cache: StorageValue<AccountId>, an Option
VARIABLE KingMember
\* storage-cache: StorageValue<Vec<AccountId>>, an Option
VARIABLE GroupMembers
\* the events deposited in the current block
VARIABLE events
\* frame_system's block number
VARIABLE block_number
\* the last dispatched call
VARIABLE call
\* how the last dispatched call ended
VARIABLE result
\* the accesses to the pallets' storage items made by the last dispatched
\* call, in program order
VARIABLE accesses

vars == <<SimpleMap, SomeCopyValue, KingMember, GroupMembers, events,
          block_number, call, result, accesses>>

mapVars == <<SimpleMap>>
cacheVars == <<SomeCopyValue, KingMember, GroupMembers>>

Call(op, origin, arg) == [op |-> op, origin |-> origin, arg |-> arg]

\* u32::wrapping_add: the sum modulo 2^U32Bits, never None.
wrapping_add(a, b) == Some((a + b) % (U32Max + 1))

\* u32::checked_add
checked_add(a, b) == IF a + b > U32Max THEN None ELSE Some(a + b)

\* deposit_event appends one record to the event log.
deposit_event(e) ==
    /\ Len(events) < MaxEvents
    /\ events' = Append(events, e)

\* A call that returns an error (or panics) before its first write.
Fail(err) ==
    /\ result' = err
    /\ UNCHANGED <<SimpleMap, SomeCopyValue, KingMember, GroupMembers, events>>

\* Storage after genesis: neither pallet has a genesis build, so every
\* storage item is absent.  Calls are dispatched from block 1 on.
Init ==
    /\ SimpleMap = [a \in Accounts |-> None]
    /\ SomeCopyValue = None
    /\ KingMember = None
    /\ GroupMembers = None
    /\ events = <<>>
    /\ block_number = 1
    /\ call = Call("genesis", RawNone, <<>>)
    /\ result = Ok
    /\ accesses = <<>>

\* ------------------------------------------------------------ simple-map
\* StorageMap::contains_key
SimpleMapContainsKey(k) == SimpleMap[k] # None

\* StorageMap::get under ValueQuery: the default (0) when the key is absent.
SimpleMapGet(k) == IF SimpleMap[k] = None THEN 0 ELSE unwrap(SimpleMap[k])

\* set_single_entry without its deposit_event.
set_single_entry_silent(origin, entry) ==
    /\ call' = Call("set_single_entry", origin, <<entry>>)
    /\ UNCHANGED <<cacheVars, block_number>>
    /\ LET user == ensure_signed(origin) IN
       IF user = None THEN Fail(BadOrigin) /\ accesses' = <<>>
       ELSE /\ SimpleMap' = [SimpleMap EXCEPT ![unwrap(user)] = Some(entry)]
            /\ accesses' = <<<<"insert", "SimpleMap", unwrap(user)>>>>
            /\ result' = Ok
            /\ UNCHANGED events

set_single_entry(origin, entry) ==
    /\ call' = Call("set_single_entry", origin, <<entry>>)
    /\ UNCHANGED <<cacheVars, block_number>>
    /\ LET user == ensure_signed(origin) IN
       IF user = None THEN Fail(BadOrigin) /\ accesses' = <<>>
       ELSE /\ SimpleMap' = [SimpleMap EXCEPT ![unwrap(user)] = Some(entry)]
            /\ accesses' = <<<<"insert", "SimpleMap", unwrap(user)>>>>
            /\ deposit_event(<<"EntrySet", unwrap(user), entry>>)
            /\ result' = Ok

\* get_single_entry reporting the account that was read instead of the reader.
get_single_entry_target(origin, account) ==
    /\ call' = Call("get_single_entry", origin, <<account>>)
    /\ UNCHANGED <<cacheVars, block_number>>
    /\ LET getter == ensure_signed(origin) IN
       IF getter = None THEN Fail(BadOrigin) /\ accesses' = <<>>
       ELSE IF ~SimpleMapContainsKey(account)
            THEN /\ Fail(NoValueStored)
                 /\ accesses' = <<<<"contains_key", "SimpleMap", account>>>>
       ELSE LET entry == SimpleMapGet(account) IN
            /\ accesses' = <<<<"contains_key", "SimpleMap", account>>,
                             <<"get", "SimpleMap", account>>>>
            /\ deposit_event(<<"EntryGot", account, entry>>)
            /\ result' = Ok
            /\ UNCHANGED SimpleMap

\* get_single_entry reading with take instead of get: the entry is removed.
get_single_entry_take(origin, account) ==
    /\ call' = Call("get_single_entry", origin, <<account>>)
    /\ UNCHANGED <<cacheVars, block_number>>
    /\ LET getter == ensure_signed(origin) IN
       IF getter = None THEN Fail(BadOrigin) /\ accesses' = <<>>
       ELSE IF ~SimpleMapContainsKey(account)
            THEN /\ Fail(NoValueStored)
                 /\ accesses' = <<<<"contains_key", "SimpleMap", account>>>>
       ELSE LET entry == SimpleMapGet(account) IN
            /\ accesses' = <<<<"contains_key", "SimpleMap", account>>,
                             <<"take", "SimpleMap", account>>>>
            /\ deposit_event(<<"EntryGot", unwrap(getter), entry>>)
            /\ result' = Ok
            /\ SimpleMap' = [SimpleMap EXCEPT ![account] = None]

get_single_entry(origin, account) ==
    /\ call' = Call("get_single_entry", origin, <<account>>)
    /\ UNCHANGED <<cacheVars, block_number>>
    /\ LET getter == ensure_signed(origin) IN
       IF getter = None THEN Fail(BadOrigin) /\ accesses' = <<>>
       ELSE IF ~SimpleMapContainsKey(account)
            THEN /\ Fail(NoValueStored)
                 /\ accesses' = <<<<"contains_key", "SimpleMap", account>>>>
       ELSE LET entry == SimpleMapGet(account) IN
            /\ accesses' = <<<<"contains_key", "SimpleMap", account>>,
                             <<"get", "SimpleMap", account>>>>
            /\ deposit_event(<<"EntryGot", unwrap(getter), entry>>)
            /\ result' = Ok
            /\ UNCHANGED SimpleMap

\* take_single_entry without the contains_key probe: it takes whatever is
\* stored, the default when the key is absent.
take_single_entry_unprobed(origin) ==
    /\ call' = Call("take_single_entry", origin, <<>>)
    /\ UNCHANGED <<cacheVars, block_number>>
    /\ LET user == ensure_signed(origin) IN
       IF user = None THEN Fail(BadOrigin) /\ accesses' = <<>>
       ELSE LET entry == SimpleMapGet(unwrap(user)) IN
            /\ SimpleMap' = [SimpleMap EXCEPT ![unwrap(user)] = None]
            /\ accesses' = <<<<"take", "SimpleMap", unwrap(user)>>>>
            /\ deposit_event(<<"EntryTaken", unwrap(user), entry>>)
            /\ result' = Ok

\* take_single_entry reading with get instead of take: the key stays.
take_single_entry_keep(origin) ==
    /\ call' = Call("take_single_entry", origin, <<>>)
    /\ UNCHANGED <<cacheVars, block_number>>
    /\ LET user == ensure_signed(origin) IN
       IF user = None THEN Fail(BadOrigin) /\ accesses' = <<>>
       ELSE IF ~SimpleMapContainsKey(unwrap(user))
            THEN /\ Fail(NoValueStored)
                 /\ accesses' = <<<<"contains_key", "SimpleMap", unwrap(user)>>>>
       ELSE LET entry == SimpleMapGet(unwrap(user)) IN
            /\ UNCHANGED SimpleMap
            /\ accesses' = <<<<"contains_key", "SimpleMap", unwrap(user)>>,
                             <<"get", "SimpleMap", unwrap(user)>>>>
            /\ deposit_event(<<"EntryTaken", unwrap(user), entry>>)
            /\ result' = Ok

take_single_entry(origin) ==
    /\ call' = Call("take_single_entry", origin, <<>>)
    /\ UNCHANGED <<cacheVars, block_number>>
    /\ LET user == ensure_signed(origin) IN
       IF user = None THEN Fail(BadOrigin) /\ accesses' = <<>>
       ELSE IF ~SimpleMapContainsKey(unwrap(user))
            THEN /\ Fail(NoValueStored)
                 /\ accesses' = <<<<"contains_key", "SimpleMap", unwrap(user)>>>>
       ELSE LET entry == SimpleMapGet(unwrap(user)) IN
            /\ SimpleMap' = [SimpleMap EXCEPT ![unwrap(user)] = None]
            /\ accesses' = <<<<"contains_key", "SimpleMap", unwrap(user)>>,
                             <<"take", "SimpleMap", unwrap(user)>>>>
            /\ deposit_event(<<"EntryTaken", unwrap(user), entry>>)
            /\ result' = Ok

\* increase_single_entry adding with wrapping_add instead of checked_add.
increase_single_entry_wrapping(origin, add_this_val) ==
    /\ call' = Call("increase_single_entry", origin, <<add_this_val>>)
    /\ UNCHANGED <<cacheVars, block_number>>
    /\ LET user == ensure_signed(origin) IN
       IF user = None THEN Fail(BadOrigin) /\ accesses' = <<>>
       ELSE IF ~SimpleMapContainsKey(unwrap(user))
            THEN /\ Fail(NoValueStored)
                 /\ accesses' = <<<<"contains_key", "SimpleMap", unwrap(user)>>>>
       ELSE LET original_value == SimpleMapGet(unwrap(user))
                new_value == (original_value + add_this_val) % (U32Max + 1)
            IN  /\ SimpleMap' = [SimpleMap EXCEPT ![unwrap(user)] = Some(new_value)]
                /\ accesses' = <<<<"contains_key", "SimpleMap", unwrap(user)>>,
                                 <<"get", "SimpleMap", unwrap(user)>>,
                                 <<"insert", "SimpleMap", unwrap(user)>>>>
                /\ deposit_event(<<"EntryIncreased", unwrap(user),
                                   original_value, new_value>>)
                /\ result' = Ok

increase_single_entry(origin, add_this_val) ==
    /\ call' = Call("increase_single_entry", origin, <<add_this_val>>)
    /\ UNCHANGED <<cacheVars, block_number>>
    /\ LET user == ensure_signed(origin) IN
       IF user = None THEN Fail(BadOrigin) /\ accesses' = <<>>
       ELSE IF ~SimpleMapContainsKey(unwrap(user))
            THEN /\ Fail(NoValueStored)
                 /\ accesses' = <<<<"contains_key", "SimpleMap", unwrap(user)>>>>
       ELSE LET original_value == SimpleMapGet(unwrap(user))
                new_value == checked_add(original_value, add_this_val)
            IN  IF new_value = None
                THEN /\ Fail(MaxValueReached)
                     /\ accesses' = <<<<"contains_key", "SimpleMap", unwrap(user)>>,
                                      <<"get", "SimpleMap", unwrap(user)>>>>
                ELSE /\ SimpleMap' = [SimpleMap EXCEPT ![unwrap(user)] = new_value]
                     /\ accesses' = <<<<"contains_key", "SimpleMap", unwrap(user)>>,
                                      <<"get", "SimpleMap", unwrap(user)>>,
                                      <<"insert", "SimpleMap", unwrap(user)>>>>
                     /\ deposit_event(<<"EntryIncreased", unwrap(user),
                                        original_value, unwrap(new_value)>>)
                     /\ result' = Ok

NextMap ==
    \/ \E o \in Origins, v \in EntryVals : set_single_entry(o, v)
    \/ \E o \in Origins, a \in Accounts : get_single_entry(o, a)
    \/ \E o \in Origins : take_single_entry(o)
    \/ \E o \in Origins, v \in EntryVals : increase_single_entry(o, v)

\* ------------------------------------------------- simple-map properties
\* Tags of the events that record a write of an account's own entry.
OwnWriteTags == {"EntrySet", "EntryTaken", "EntryIncreased"}

\* Positions in the log of the events recording a write of a's entry.
OwnWrites(a) ==
    {i \in 1..Len(events) : events[i][1] \in OwnWriteTags /\ events[i][2] = a}

\* The latest event recording a write of a's entry, <<>> if there is none.
LastOwnWrite(a) ==
    IF OwnWrites(a) = {} THEN <<>>
    ELSE events[CHOOSE i \in OwnWrites(a) : \A j \in OwnWrites(a) : j <= i]

\* C1: after set_single_entry(a, v) succeeded and a has not set, taken or
\* increased its entry since, get_single_entry(g, a) succeeds and emits
\* EntryGot(g, v): the event carries the reader g and the value stored under a.
C1_GetAfterSet ==
    [][\A g \in Accounts, a \in Accounts :
         (/\ call' = Call("get_single_entry", Signed(g), <<a>>)
          /\ LastOwnWrite(a) # <<>>
          /\ LastOwnWrite(a)[1] = "EntrySet")
         => /\ result' = Ok
            /\ events' = Append(events, <<"EntryGot", g, LastOwnWrite(a)[3]>>)
            /\ SimpleMap' = SimpleMap]_vars

\* C1 witness: B has read the entry A set to U32Max.
C1_Witness ==
    /\ call = Call("get_single_entry", Signed("B"), <<"A">>)
    /\ result = Ok
    /\ events = <<<<"EntrySet", "A", U32Max>>, <<"EntryGot", "B", U32Max>>>>

\* C2: take_single_entry by a, issued after a's set_single_entry(v), succeeds,
\* emits EntryTaken(a, v) and removes a's entry; a get_single_entry(_, a)
\* issued after the take and before a sets again fails with NoValueStored.
C2_TakeThenGet ==
    [][\A a \in Accounts :
         /\ (/\ call' = Call("take_single_entry", Signed(a), <<>>)
             /\ LastOwnWrite(a) # <<>>
             /\ LastOwnWrite(a)[1] = "EntrySet")
            => /\ result' = Ok
               /\ events' = Append(events,
                                   <<"EntryTaken", a, LastOwnWrite(a)[3]>>)
               /\ SimpleMap' = [SimpleMap EXCEPT ![a] = None]
         /\ \A g \in Accounts :
              (/\ call' = Call("get_single_entry", Signed(g), <<a>>)
               /\ LastOwnWrite(a) # <<>>
               /\ LastOwnWrite(a)[1] = "EntryTaken")
              => /\ result' = NoValueStored
                 /\ events' = events
                 /\ SimpleMap' = SimpleMap]_vars

\* C2 witness: A set 1, took it, and B's read of A's entry then failed.
C2_Witness ==
    /\ call = Call("get_single_entry", Signed("B"), <<"A">>)
    /\ result = NoValueStored
    /\ events = <<<<"EntrySet", "A", 1>>, <<"EntryTaken", "A", 1>>>>
    /\ SimpleMap["A"] = None

\* C3: increase_single_entry(d) by a with Entry[a] = v fails with
\* MaxValueReached and writes nothing when v + d exceeds the maximum of the
\* integer type; otherwise it stores v + d and emits EntryIncreased(a, v, v + d).
C3_IncreaseChecked ==
    [][\A a \in Accounts, d \in EntryVals :
         (/\ call' = Call("increase_single_entry", Signed(a), <<d>>)
          /\ SimpleMap[a] # None)
         => LET v == unwrap(SimpleMap[a]) IN
            IF v + d > U32Max
            THEN /\ result' = MaxValueReached
                 /\ SimpleMap' = SimpleMap
                 /\ events' = events
            ELSE /\ result' = Ok
                 /\ SimpleMap' = [SimpleMap EXCEPT ![a] = Some(v + d)]
                 /\ events' = Append(events,
                                     <<"EntryIncreased", a, v, v + d>>)]_vars

\* C3 witness: A's entry went from 1 to 2, and adding U32Max was then refused.
C3_Witness ==
    /\ call = Call("increase_single_entry", Signed("A"), <<U32Max>>)
    /\ result = MaxValueReached
    /\ events = <<<<"EntrySet", "A", 1>>, <<"EntryIncreased", "A", 1, 2>>>>
    /\ SimpleMap["A"] = Some(2)

\* The accesses that read a key of SimpleMap (take reads and removes), and
\* those that write one.
MapReadKinds == {"contains_key", "get", "take"}
MapWriteKinds == {"insert", "take"}

\* Positions of the read / write accesses among the accesses.
MapReads(acc) == {i \in 1..Len(acc) : acc[i][1] \in MapReadKinds}
MapWrites(acc) == {i \in 1..Len(acc) : acc[i][1] \in MapWriteKinds}

\* The key a simple-map call works on: the account named by
\* get_single_entry, the signer for the others.
MapKey(c) == IF c.op = "get_single_entry" THEN c.arg[1] ELSE c.origin[2]

\* C19 (as claimed): a simple-map call makes at most one write access and
\* reads no key twice, a contains_key probe counting as a read.
C19_OneRead ==
    [][/\ Cardinality(MapWrites(accesses')) <= 1
       /\ \A i, j \in MapReads(accesses') :
             accesses'[i][3] = accesses'[j][3] => i = j]_vars

\* C19 (amended): a simple-map call by a signed origin accesses one key
\* only (the caller's, or the account named by get_single_entry) and makes
\* at most one write.  set_single_entry makes no read and one write.
\* get_single_entry, take_single_entry and increase_single_entry probe the
\* key with contains_key and, when it is present, read it a second time
\* (get, or take): two read accesses of the same key; when it is absent the
\* probe is the only access.  A write is made exactly by the successful
\* calls other than get_single_entry.  A call by an unsigned origin makes
\* no access.
C19_Accesses ==
    [][IF ensure_signed(call'.origin) = None THEN accesses' = <<>>
       ELSE /\ \A i \in 1..Len(accesses') :
                  /\ accesses'[i][2] = "SimpleMap"
                  /\ accesses'[i][3] = MapKey(call')
            /\ Cardinality(MapReads(accesses')) =
                  IF call'.op = "set_single_entry" THEN 0
                  ELSE IF SimpleMapContainsKey(MapKey(call')) THEN 2
                  ELSE 1
            /\ Cardinality(MapWrites(accesses')) =
                  IF result' = Ok /\ call'.op # "get_single_entry" THEN 1
                  ELSE 0]_vars

\* C19 witness: A has read the entry of B; the call probed the key of B
\* and then read it.
C19_Witness ==
    /\ call = Call("get_single_entry", Signed("A"), <<"B">>)
    /\ result = Ok
    /\ accesses = <<<<"contains_key", "SimpleMap", "B">>,
                    <<"get", "SimpleMap", "B">>>>
    /\ SimpleMap["B"] = Some(U32Max)

SpecMap == Init /\ [][NextMap]_vars

\* --------------------------------------------------------- storage-cache
\* The storage accesses the dispatchables make.
GetCopy == <<"get", "SomeCopyValue">>
PutCopy == <<"put", "SomeCopyValue">>
GetKing == <<"get", "KingMember">>
PutKing == <<"put", "KingMember">>
GetMembers == <<"get", "GroupMembers">>
AppendMembers == <<"append", "GroupMembers">>

\* Vec::contains
contains(vec, who) == \E i \in 1..Len(vec) : vec[i] = who

\* Pallet::is_member: GroupMembers::get().unwrap().contains(who).
\* <<Ok, b>> when it returns b, <<Panic>> when the unwrap hits None.
is_member(who) ==
    IF GroupMembers = None THEN <<Panic>>
    ELSE <<Ok, contains(unwrap(GroupMembers), who)>>

\* StorageValue::append: an absent value is treated as the empty Vec.
GroupMembersAppend(who) ==
    IF GroupMembers = None THEN Some(<<who>>)
    ELSE Some(Append(unwrap(GroupMembers), who))

\* The computation of increase_value_no_cache up to (not including) the
\* write: <<Ok, v>> when v is to be stored, <<err>> otherwise.
no_cache_calc(some_val) ==
    LET original_call == SomeCopyValue IN
    IF original_call = None THEN <<Panic>>
    ELSE LET some_calculation == checked_add(unwrap(original_call), some_val) IN
         IF some_calculation = None THEN <<Overflow1>>
         ELSE LET unnecessary_call == SomeCopyValue IN
              IF unnecessary_call = None THEN <<Panic>>
              ELSE LET another_calculation ==
                           checked_add(unwrap(some_calculation),
                                       unwrap(unnecessary_call)) IN
                   IF another_calculation = None THEN <<Overflow2>>
                   ELSE <<Ok, unwrap(another_calculation)>>

\* w_copy_calc reading an absent SomeCopyValue as the default 0 instead of
\* unwrapping it.
w_copy_calc_default(some_val) ==
    LET original_call ==
            IF SomeCopyValue = None THEN Some(0) ELSE SomeCopyValue IN
    LET some_calculation == checked_add(unwrap(original_call), some_val) IN
    IF some_calculation = None THEN <<Overflow1>>
    ELSE LET another_calculation ==
                 checked_add(unwrap(some_calculation),
                             unwrap(original_call)) IN
         IF another_calculation = None THEN <<Overflow2>>
         ELSE <<Ok, unwrap(another_calculation)>>

\* w_copy_calc adding some_val a second time instead of the value read.
w_copy_calc_twice(some_val) ==
    LET original_call == SomeCopyValue IN
    IF original_call = None THEN <<Panic>>
    ELSE LET some_calculation == checked_add(unwrap(original_call), some_val) IN
         IF some_calculation = None THEN <<Overflow1>>
         ELSE LET another_calculation ==
                      checked_add(unwrap(some_calculation), some_val) IN
              IF another_calculation = None THEN <<Overflow2>>
              ELSE <<Ok, unwrap(another_calculation)>>

\* The computation of increase_value_w_copy up to the write.
w_copy_calc(some_val) ==
    LET original_call == SomeCopyValue IN
    IF original_call = None THEN <<Panic>>
    ELSE LET some_calculation == checked_add(unwrap(original_call), some_val) IN
         IF some_calculation = None THEN <<Overflow1>>
         ELSE LET another_calculation ==
                      checked_add(unwrap(some_calculation),
                                  unwrap(original_call)) IN
              IF another_calculation = None THEN <<Overflow2>>
              ELSE <<Ok, unwrap(another_calculation)>>

\* increase_value_no_cache reading SomeCopyValue once on every path.
no_cache_reads_once(some_val) == <<GetCopy>>

\* The reads of SomeCopyValue increase_value_no_cache makes before it
\* writes or returns: the second get is reached only when the first value
\* is present and the first addition does not overflow.
no_cache_reads(some_val) ==
    LET original_call == SomeCopyValue IN
    IF original_call = None THEN <<GetCopy>>
    ELSE IF checked_add(unwrap(original_call), some_val) = None
         THEN <<GetCopy>>
    ELSE <<GetCopy, GetCopy>>

\* The reads of SomeCopyValue increase_value_w_copy makes.
w_copy_reads(some_val) == <<GetCopy>>

\* increase_value_no_cache storing the first sum before the second
\* addition is checked.
increase_value_no_cache_early(origin, some_val) ==
    /\ call' = Call("increase_value_no_cache", origin, <<some_val>>)
    /\ UNCHANGED <<mapVars, block_number>>
    /\ IF ensure_signed(origin) = None THEN Fail(BadOrigin) /\ accesses' = <<>>
       ELSE LET calc == no_cache_calc(some_val) IN
            IF calc[1] = Overflow2
            THEN /\ SomeCopyValue' =
                        checked_add(unwrap(SomeCopyValue), some_val)
                 /\ accesses' = <<GetCopy, PutCopy, GetCopy>>
                 /\ result' = Overflow2
                 /\ UNCHANGED <<SimpleMap, KingMember, GroupMembers, events>>
            ELSE IF calc[1] # Ok
            THEN Fail(calc[1]) /\ accesses' = no_cache_reads(some_val)
            ELSE /\ SomeCopyValue' = Some(calc[2])
                 /\ accesses' = Append(no_cache_reads(some_val), PutCopy)
                 /\ deposit_event(<<"InefficientValueChange", calc[2],
                                    block_number>>)
                 /\ result' = Ok
                 /\ UNCHANGED <<KingMember, GroupMembers>>

increase_value_no_cache(origin, some_val) ==
    /\ call' = Call("increase_value_no_cache", origin, <<some_val>>)
    /\ UNCHANGED <<mapVars, block_number>>
    /\ IF ensure_signed(origin) = None THEN Fail(BadOrigin) /\ accesses' = <<>>
       ELSE LET calc == no_cache_calc(some_val) IN
            IF calc[1] # Ok
            THEN Fail(calc[1]) /\ accesses' = no_cache_reads(some_val)
            ELSE /\ SomeCopyValue' = Some(calc[2])
                 /\ accesses' = Append(no_cache_reads(some_val), PutCopy)
                 /\ deposit_event(<<"InefficientValueChange", calc[2],
                                    block_number>>)
                 /\ result' = Ok
                 /\ UNCHANGED <<KingMember, GroupMembers>>

\* increase_value_w_copy depositing the event of the other variant.
increase_value_w_copy_tag(origin, some_val) ==
    /\ call' = Call("increase_value_w_copy", origin, <<some_val>>)
    /\ UNCHANGED <<mapVars, block_number>>
    /\ IF ensure_signed(origin) = None THEN Fail(BadOrigin) /\ accesses' = <<>>
       ELSE LET calc == w_copy_calc(some_val) IN
            IF calc[1] # Ok
            THEN Fail(calc[1]) /\ accesses' = w_copy_reads(some_val)
            ELSE /\ SomeCopyValue' = Some(calc[2])
                 /\ accesses' = Append(w_copy_reads(some_val), PutCopy)
                 /\ deposit_event(<<"InefficientValueChange", calc[2],
                                    block_number>>)
                 /\ result' = Ok
                 /\ UNCHANGED <<KingMember, GroupMembers>>

increase_value_w_copy(origin, some_val) ==
    /\ call' = Call("increase_value_w_copy", origin, <<some_val>>)
    /\ UNCHANGED <<mapVars, block_number>>
    /\ IF ensure_signed(origin) = None THEN Fail(BadOrigin) /\ accesses' = <<>>
       ELSE LET calc == w_copy_calc(some_val) IN
            IF calc[1] # Ok
            THEN Fail(calc[1]) /\ accesses' = w_copy_reads(some_val)
            ELSE /\ SomeCopyValue' = Some(calc[2])
                 /\ accesses' = Append(w_copy_reads(some_val), PutCopy)
                 /\ deposit_event(<<"BetterValueChange", calc[2],
                                    block_number>>)
                 /\ result' = Ok
                 /\ UNCHANGED <<KingMember, GroupMembers>>

swap_king_no_cache(origin) ==
    /\ call' = Call("swap_king_no_cache", origin, <<>>)
    /\ UNCHANGED <<mapVars, block_number>>
    /\ LET new_king == ensure_signed(origin)
           existing_king == KingMember
       IN
       IF new_king = None THEN Fail(BadOrigin) /\ accesses' = <<>>
       ELSE IF existing_king = None
            THEN Fail(Panic) /\ accesses' = <<GetKing>>
       ELSE IF is_member(unwrap(existing_king)) = <<Panic>>
            THEN Fail(Panic) /\ accesses' = <<GetKing, GetMembers>>
       ELSE IF is_member(unwrap(existing_king)) = <<Ok, TRUE>>
            THEN Fail(KingIsMember) /\ accesses' = <<GetKing, GetMembers>>
       ELSE IF is_member(unwrap(new_king)) = <<Panic>>
            THEN Fail(Panic) /\ accesses' = <<GetKing, GetMembers, GetMembers>>
       ELSE IF is_member(unwrap(new_king)) = <<Ok, FALSE>>
            THEN /\ Fail(NewKingNotMember)
                 /\ accesses' = <<GetKing, GetMembers, GetMembers>>
       ELSE LET old_king == KingMember IN
            /\ KingMember' = new_king
            /\ accesses' = <<GetKing, GetMembers, GetMembers, GetKing, PutKing>>
            /\ deposit_event(<<"InefficientKingSwap", unwrap(old_king),
                               unwrap(new_king)>>)
            /\ result' = Ok
            /\ UNCHANGED <<SomeCopyValue, GroupMembers>>

swap_king_with_cache(origin) ==
    /\ call' = Call("swap_king_with_cache", origin, <<>>)
    /\ UNCHANGED <<mapVars, block_number>>
    /\ LET new_king == ensure_signed(origin)
           existing_king == KingMember
           old_king == existing_king
       IN
       IF new_king = None THEN Fail(BadOrigin) /\ accesses' = <<>>
       ELSE IF existing_king = None
            THEN Fail(Panic) /\ accesses' = <<GetKing>>
       ELSE IF is_member(unwrap(existing_king)) = <<Panic>>
            THEN Fail(Panic) /\ accesses' = <<GetKing, GetMembers>>
       ELSE IF is_member(unwrap(existing_king)) = <<Ok, TRUE>>
            THEN Fail(KingIsMember) /\ accesses' = <<GetKing, GetMembers>>
       ELSE IF is_member(unwrap(new_king)) = <<Panic>>
            THEN Fail(Panic) /\ accesses' = <<GetKing, GetMembers, GetMembers>>
       ELSE IF is_member(unwrap(new_king)) = <<Ok, FALSE>>
            THEN /\ Fail(NewKingNotMember)
                 /\ accesses' = <<GetKing, GetMembers, GetMembers>>
       ELSE /\ KingMember' = new_king
            /\ accesses' = <<GetKing, GetMembers, GetMembers, PutKing>>
            /\ deposit_event(<<"BetterKingSwap", unwrap(old_king),
                               unwrap(new_king)>>)
            /\ result' = Ok
            /\ UNCHANGED <<SomeCopyValue, GroupMembers>>

set_copy(origin, val) ==
    /\ call' = Call("set_copy", origin, <<val>>)
    /\ UNCHANGED <<mapVars, block_number>>
    /\ IF ensure_signed(origin) = None THEN Fail(BadOrigin) /\ accesses' = <<>>
       ELSE /\ SomeCopyValue' = Some(val)
            /\ accesses' = <<PutCopy>>
            /\ result' = Ok
            /\ UNCHANGED <<KingMember, GroupMembers, events>>

set_king(origin) ==
    /\ call' = Call("set_king", origin, <<>>)
    /\ UNCHANGED <<mapVars, block_number>>
    /\ LET user == ensure_signed(origin) IN
       IF user = None THEN Fail(BadOrigin) /\ accesses' = <<>>
       ELSE /\ KingMember' = user
            /\ accesses' = <<PutKing>>
            /\ result' = Ok
            /\ UNCHANGED <<SomeCopyValue, GroupMembers, events>>

\* mock_add_member storing a list of the added account alone, without the
\* is_member check.
mock_add_member_put(origin) ==
    /\ call' = Call("mock_add_member", origin, <<>>)
    /\ UNCHANGED <<mapVars, block_number>>
    /\ LET added == ensure_signed(origin) IN
       IF added = None THEN Fail(BadOrigin) /\ accesses' = <<>>
       ELSE /\ GroupMembers' = Some(<<unwrap(added)>>)
            /\ accesses' = <<<<"put", "GroupMembers">>>>
            /\ result' = Ok
            /\ UNCHANGED <<SomeCopyValue, KingMember, events>>

\* mock_add_member without the is_member check.
mock_add_member_unchecked(origin) ==
    /\ call' = Call("mock_add_member", origin, <<>>)
    /\ UNCHANGED <<mapVars, block_number>>
    /\ LET added == ensure_signed(origin) IN
       IF added = None THEN Fail(BadOrigin) /\ accesses' = <<>>
       ELSE /\ GroupMembers' = GroupMembersAppend(unwrap(added))
            /\ accesses' = <<AppendMembers>>
            /\ result' = Ok
            /\ UNCHANGED <<SomeCopyValue, KingMember, events>>

mock_add_member(origin) ==
    /\ call' = Call("mock_add_member", origin, <<>>)
    /\ UNCHANGED <<mapVars, block_number>>
    /\ LET added == ensure_signed(origin) IN
       IF added = None THEN Fail(BadOrigin) /\ accesses' = <<>>
       ELSE IF is_member(unwrap(added)) = <<Panic>>
            THEN Fail(Panic) /\ accesses' = <<GetMembers>>
       ELSE IF is_member(unwrap(added)) = <<Ok, TRUE>>
            THEN Fail(AlreadyMember) /\ accesses' = <<GetMembers>>
       ELSE /\ GroupMembers' = GroupMembersAppend(unwrap(added))
            /\ accesses' = <<GetMembers, AppendMembers>>
            /\ result' = Ok
            /\ UNCHANGED <<SomeCopyValue, KingMember, events>>

\* The host starts the next block: frame_system advances the block number
\* and resets the events of the block.
AdvanceBlock ==
    /\ block_number < MaxBlock
    /\ block_number' = block_number + 1
    /\ events' = <<>>
    /\ call' = Call("initialize_block", RawNone, <<>>)
    /\ result' = Ok
    /\ accesses' = <<>>
    /\ UNCHANGED <<mapVars, cacheVars>>

\* The calls on SomeCopyValue, and the host's block clock they read.
NextCounter ==
    \/ \E o \in CounterOrigins, v \in CopyVals : increase_value_no_cache(o, v)
    \/ \E o \in CounterOrigins, v \in CopyVals : increase_value_w_copy(o, v)
    \/ \E o \in CounterOrigins, v \in CopyVals : set_copy(o, v)
    \/ AdvanceBlock

\* The calls on KingMember and GroupMembers.
NextKing ==
    \/ \E o \in Origins : swap_king_no_cache(o)
    \/ \E o \in Origins : swap_king_with_cache(o)
    \/ \E o \in Origins : set_king(o)
    \/ \E o \in Origins : mock_add_member(o)

NextCache == NextCounter \/ NextKing

\* ---------------------------------------------- storage-cache properties
IncreaseOps == {"increase_value_no_cache", "increase_value_w_copy"}

\* C4: from the same state and with the same delta, increase_value_no_cache
\* and increase_value_w_copy end the same way (Ok or the same failure) and,
\* on success, leave the same value in SomeCopyValue.  Each step of one
\* variant is compared with what the other variant computes from the state
\* the step started in.
C4_SameOutcome ==
    [][\A a \in Accounts, d \in CopyVals :
         /\ call' = Call("increase_value_no_cache", Signed(a), <<d>>)
            => /\ result' = w_copy_calc(d)[1]
               /\ SomeCopyValue' = IF w_copy_calc(d)[1] = Ok
                                   THEN Some(w_copy_calc(d)[2])
                                   ELSE SomeCopyValue
         /\ call' = Call("increase_value_w_copy", Signed(a), <<d>>)
            => /\ result' = no_cache_calc(d)[1]
               /\ SomeCopyValue' = IF no_cache_calc(d)[1] = Ok
                                   THEN Some(no_cache_calc(d)[2])
                                   ELSE SomeCopyValue]_vars

\* C4 witness: the uncached variant took the counter from 50 to 200 (delta
\* 100), the result the cached variant gives as well.
C4_Witness ==
    /\ call = Call("increase_value_no_cache", Signed("A"), <<100>>)
    /\ result = Ok
    /\ SomeCopyValue = Some(200)
    /\ events = <<<<"InefficientValueChange", 200, block_number>>>>

\* C5: increase_value_w_copy(delta) with SomeCopyValue = old and
\* old + delta + old within the integer type stores old + delta + old and
\* emits BetterValueChange(old + delta + old, current block number); with
\* old = 100 and delta = 50 the stored value is 250.
C5_WCopyResult ==
    [][\A a \in Accounts, d \in CopyVals :
         (/\ call' = Call("increase_value_w_copy", Signed(a), <<d>>)
          /\ SomeCopyValue # None
          /\ unwrap(SomeCopyValue) + d + unwrap(SomeCopyValue) <= U32Max)
         => LET old == unwrap(SomeCopyValue) IN
            /\ result' = Ok
            /\ SomeCopyValue' = Some(old + d + old)
            /\ events' = Append(events, <<"BetterValueChange", old + d + old,
                                          block_number>>)
            /\ (old = 100 /\ d = 50) => SomeCopyValue' = Some(250)]_vars

\* C5 witness: set_copy(100), then increase_value_w_copy(50) in block 2.
C5_Witness ==
    /\ call = Call("increase_value_w_copy", Signed("A"), <<50>>)
    /\ result = Ok
    /\ SomeCopyValue = Some(250)
    /\ block_number = 2
    /\ events = <<<<"BetterValueChange", 250, 2>>>>

\* C6: with SomeCopyValue = old, both increase variants fail with an overflow
\* error exactly when old + delta or old + delta + old exceeds the maximum of
\* the integer type, and then leave SomeCopyValue = old; otherwise they store
\* the exact sum.  SomeCopyValue, when present, is always within the type.
C6_OverflowChecked ==
    [][/\ \A op \in IncreaseOps, a \in Accounts, d \in CopyVals :
            (/\ call' = Call(op, Signed(a), <<d>>)
             /\ SomeCopyValue # None)
            => LET old == unwrap(SomeCopyValue) IN
               IF old + d > U32Max
               THEN /\ result' = Overflow1
                    /\ SomeCopyValue' = SomeCopyValue
                    /\ events' = events
               ELSE IF old + d + old > U32Max
               THEN /\ result' = Overflow2
                    /\ SomeCopyValue' = SomeCopyValue
                    /\ events' = events
               ELSE /\ result' = Ok
                    /\ SomeCopyValue' = Some(old + d + old)
       /\ SomeCopyValue' # None => unwrap(SomeCopyValue') \in 0..U32Max]_vars

\* C6 witness: the counter reached 250 by an increase, and a further
\* increase by 50 was refused on its first addition.
C6_Witness ==
    /\ call = Call("increase_value_no_cache", Signed("A"), <<50>>)
    /\ result = Overflow1
    /\ SomeCopyValue = Some(250)
    /\ events = <<<<"BetterValueChange", 250, 1>>>>

\* C7 (as claimed): when SomeCopyValue has never been set, both increase
\* variants return a failure to the caller (they do not panic), SomeCopyValue
\* stays absent and no event is emitted.
C7_AbsentIsFailure ==
    [][\A op \in IncreaseOps, a \in Accounts, d \in CopyVals :
         (/\ call' = Call(op, Signed(a), <<d>>)
          /\ SomeCopyValue = None)
         => /\ result' \notin {Ok, Panic}
            /\ SomeCopyValue' = None
            /\ events' = events]_vars

\* C8 (as claimed): mock_add_member(x) for an x that is not a member, the
\* never-written member list included, succeeds and appends x, so that
\* is_member(x) holds afterwards; for a member x it fails with AlreadyMember
\* and leaves the list unchanged.
C8_AddMember ==
    [][\A x \in Accounts :
         call' = Call("mock_add_member", Signed(x), <<>>)
         => IF is_member(x) = <<Ok, TRUE>>
            THEN /\ result' = AlreadyMember
                 /\ GroupMembers' = GroupMembers
            ELSE /\ result' = Ok
                 /\ GroupMembers' = GroupMembersAppend(x)
                 /\ contains(unwrap(GroupMembers'), x)]_vars

\* C9 (as claimed): in every reachable state is_member returns a boolean for
\* every account.
C9_IsMemberTotal ==
    \A x \in Accounts : is_member(x) \in {<<Ok, TRUE>>, <<Ok, FALSE>>}

SwapOps == {"swap_king_no_cache", "swap_king_with_cache"}

\* The event a successful swap of the given variant deposits.
SwapEvent(op, old, new) ==
    IF op = "swap_king_no_cache" THEN <<"InefficientKingSwap", old, new>>
    ELSE <<"BetterKingSwap", old, new>>

\* x is an element of the stored member list.
Listed(x) == GroupMembers # None /\ contains(unwrap(GroupMembers), x)

\* C11 (as claimed): a swap by c succeeds only if the current King is not a
\* member and c is a member, and on success King = Some(c) and the event
\* carries (old King, c); in particular, once c has been added as a member
\* (mock_add_member(c) was the previous call) while the King is some other,
\* unlisted account, the swap by c succeeds.
C11_SwapSucceeds ==
    [][\A c \in Accounts, op \in SwapOps :
         call' = Call(op, Signed(c), <<>>)
         => /\ result' = Ok
               => /\ KingMember # None
                  /\ ~Listed(unwrap(KingMember))
                  /\ Listed(c)
                  /\ KingMember' = Some(c)
                  /\ events' = Append(events,
                                      SwapEvent(op, unwrap(KingMember), c))
            /\ ( /\ call = Call("mock_add_member", Signed(c), <<>>)
                 /\ KingMember # None
                 /\ unwrap(KingMember) # c
                 /\ ~Listed(unwrap(KingMember)) )
               => result' = Ok]_vars

\* C12 (as claimed): with a King that is a member, a swap by any caller
\* fails with "current king is a member so maintains priority"; with a King
\* that is not a member and a caller that is not a member it fails with
\* "new king is not a member so doesn't get priority"; in both cases the
\* King is unchanged.
C12_SwapRefused ==
    [][\A c \in Accounts, op \in SwapOps :
         (call' = Call(op, Signed(c), <<>>) /\ KingMember # None)
         => IF Listed(unwrap(KingMember))
            THEN result' = KingIsMember /\ KingMember' = KingMember
            ELSE ~Listed(c)
                 => result' = NewKingNotMember /\ KingMember' = KingMember]_vars

\* C13 (as claimed): with the King never set, a swap ends in a defined
\* failure (an error the call returns, not a panic) and the King stays
\* unset.
C13_NoIncumbent ==
    [][\A c \in Accounts, op \in SwapOps :
         (call' = Call(op, Signed(c), <<>>) /\ KingMember = None)
         => result' \notin {Ok, Panic} /\ KingMember' = None]_vars

CopyReads(acc) == Cardinality({i \in 1..Len(acc) : acc[i] = GetCopy})

\* C18 (as claimed): every call of increase_value_no_cache by a signed
\* origin reads SomeCopyValue twice and every call of increase_value_w_copy
\* once, whatever the stored value and the delta (stated here for a stored
\* value that is present).
C18_OneMoreRead ==
    [][/\ (call'.op = "increase_value_no_cache"
           /\ ensure_signed(call'.origin) # None
           /\ SomeCopyValue # None)
          => CopyReads(accesses') = 2
       /\ (call'.op = "increase_value_w_copy"
           /\ ensure_signed(call'.origin) # None)
          => CopyReads(accesses') = 1]_vars

\* C18 (amended): a call of increase_value_no_cache by a signed origin
\* reads SomeCopyValue twice when the value is present and the first
\* addition (value + delta) does not overflow, and once otherwise; a call
\* of increase_value_w_copy by a signed origin reads it once; with an
\* unsigned origin neither reads it.
C18_ReadCounts ==
    [][call'.op \in IncreaseOps
       => CopyReads(accesses') =
            IF ensure_signed(call'.origin) = None THEN 0
            ELSE IF call'.op = "increase_value_w_copy" THEN 1
            ELSE IF SomeCopyValue # None
                    /\ unwrap(SomeCopyValue) + call'.arg[1] <= U32Max
                 THEN 2
            ELSE 1]_vars

\* C18 witness: increase_value_no_cache has failed on its first addition
\* (200 + 100) after a single read.
C18_Witness ==
    /\ call = Call("increase_value_no_cache", Signed("A"), <<100>>)
    /\ result = Overflow1
    /\ accesses = <<GetCopy>>
    /\ SomeCopyValue = Some(200)

C22_NeverCleared ==
    [][/\ KingMember # None => KingMember' # None
       /\ SomeCopyValue # None => SomeCopyValue' # None
       /\ (KingMember = None /\ KingMember' # None)
          => call'.op = "set_king" /\ result' = Ok
       /\ (SomeCopyValue = None /\ SomeCopyValue' # None)
          => call'.op = "set_copy" /\ result' = Ok]_vars

\* C22 witness: with the King set to B and SomeCopyValue raised from 50 to
\* 150, a swap by A has been dispatched and both values are still there.
C22_Witness ==
    /\ call = Call("swap_king_with_cache", Signed("A"), <<>>)
    /\ result = Panic
    /\ KingMember = Some("B")
    /\ SomeCopyValue = Some(150)

SpecCounter == Init /\ [][NextCounter]_vars

SpecCache == Init /\ [][NextCache]_vars

\* Both pallets in one runtime, dispatching the calls of one block.  The
\* calls are the same actions; their arguments are drawn from smaller sets
\* than in the per-pallet specifications.
Next ==
    \/ \E a \in Accounts, v \in {1, U32Max} : set_single_entry(Signed(a), v)
    \/ \E a \in Accounts, t \in Accounts : get_single_entry(Signed(a), t)
    \/ \E a \in Accounts : take_single_entry(Signed(a))
    \/ \E a \in Accounts, v \in {1, U32Max} :
          increase_single_entry(Signed(a), v)
    \/ \E v \in {100} : increase_value_no_cache(Signed("A"), v)
    \/ \E v \in {100} : increase_value_w_copy(Signed("A"), v)
    \/ \E v \in {50, 100} : set_copy(Signed("A"), v)
    \/ \E a \in Accounts : swap_king_no_cache(Signed(a))
    \/ \E a \in Accounts : swap_king_with_cache(Signed(a))
    \/ \E a \in Accounts : set_king(Signed(a))
    \/ \E a \in Accounts : mock_add_member(Signed(a))

\* ------------------------------------------- properties of both pallets
\* The calls that write storage.
MutatingOps ==
    {"set_single_entry", "take_single_entry", "increase_single_entry",
     "set_copy", "increase_value_no_cache", "increase_value_w_copy",
     "set_king", "swap_king_no_cache", "swap_king_with_cache",
     "mock_add_member"}

\* The calls whose code holds a deposit_event.
DepositingOps ==
    {"set_single_entry", "get_single_entry", "take_single_entry",
     "increase_single_entry", "increase_value_no_cache",
     "increase_value_w_copy", "swap_king_no_cache", "swap_king_with_cache"}

\* The step appended exactly one record to the event log.
OneEventAppended ==
    /\ Len(events') = Len(events) + 1
    /\ SubSeq(events', 1, Len(events)) = events

\* C14 (as claimed): every successful mutating call (set_copy, set_king and
\* mock_add_member included) appends exactly one event, every failed call
\* appends none.
C14_OneEventPerSuccess ==
    [][call'.op \in MutatingOps
       => IF result' = Ok THEN OneEventAppended ELSE events' = events]_vars

\* C14 (amended): a successful call appends exactly one event when it is
\* one of set/get/take/increase_single_entry, increase_value_no_cache,
\* increase_value_w_copy, swap_king_no_cache or swap_king_with_cache, and
\* none when it is set_copy, set_king or mock_add_member; a failed call
\* appends none.
C14_EventsPerCall ==
    [][IF result' = Ok /\ call'.op \in DepositingOps
       THEN OneEventAppended
       ELSE events' = events]_vars

\* C14 witness: a set_copy has succeeded and left the log as the earlier
\* set_single_entry wrote it.
C14_Witness ==
    /\ call = Call("set_copy", Signed("A"), <<50>>)
    /\ result = Ok
    /\ SomeCopyValue = Some(50)
    /\ events = <<<<"EntrySet", "A", 1>>>>

\* The kinds of access that write storage.
WriteKinds == {"put", "insert", "take", "append"}

\* C15: a call that does not return Ok (an error or a panic) leaves
\* SimpleMap, SomeCopyValue, KingMember and GroupMembers as they were, and
\* has made no write access: every check that can fail precedes the first
\* write.
C15_FailureWritesNothing ==
    [][result' # Ok
       => /\ UNCHANGED <<SimpleMap, SomeCopyValue, KingMember, GroupMembers>>
          /\ \A i \in 1..Len(accesses') :
                accesses'[i][1] \notin WriteKinds]_vars

\* C15 witness: increase_value_no_cache has failed on its second addition,
\* after both reads, with every other storage item populated.
C15_Witness ==
    /\ call = Call("increase_value_no_cache", Signed("A"), <<100>>)
    /\ result = Overflow2
    /\ accesses = <<GetCopy, GetCopy>>
    /\ SomeCopyValue = Some(100)
    /\ SimpleMap["A"] = Some(1)
    /\ KingMember = Some("B")

MapOps ==
    {"set_single_entry", "get_single_entry", "take_single_entry",
     "increase_single_entry"}

\* C16: set_single_entry, take_single_entry and increase_single_entry
\* called by c leave the entry of every other account t as it was;
\* get_single_entry changes no entry; no simple-map call changes
\* SomeCopyValue, KingMember or GroupMembers; and the entry of t becomes
\* present only in a set_single_entry called by t.
C16_Frame ==
    [][/\ call'.op \in MapOps => UNCHANGED cacheVars
       /\ call'.op = "get_single_entry" => SimpleMap' = SimpleMap
       /\ \A c \in Accounts, t \in Accounts :
             (call'.op \in MapOps /\ call'.origin = Signed(c) /\ t # c)
             => SimpleMap'[t] = SimpleMap[t]
       /\ \A t \in Accounts :
             (SimpleMap[t] = None /\ SimpleMap'[t] # None)
             => /\ call'.op = "set_single_entry"
                /\ call'.origin = Signed(t)]_vars

\* C16 witness: A has read the entry B set, with SomeCopyValue written:
\* B's entry is still there and A has none.
C16_Witness ==
    /\ call = Call("get_single_entry", Signed("A"), <<"B">>)
    /\ result = Ok
    /\ events = <<<<"EntrySet", "B", 1>>, <<"EntryGot", "A", 1>>>>
    /\ SimpleMap = [a \in Accounts |-> IF a = "B" THEN Some(1) ELSE None]
    /\ SomeCopyValue = Some(50)

Spec == Init /\ [][Next]_vars

====
